---- MODULE Spec2Model ----
(***************************************************************************)
(* mgo-statsd: main.go.  A ticker-driven goroutine fetches serverStatus    *)
(* from MongoDB and pushes 23 gauges to statsd; the main goroutine waits   *)
(* for a termination signal, prints it, closes quit and returns.           *)
(***************************************************************************)
EXTENDS Integers, Sequences, FiniteSets, TLC

\* ------------------------------------------------------------------ bounds
\* Number of times the ticker may fire in a behaviour.
MaxTicks == 2
\* Number of termination signals the operating system may deliver.
MaxSignals == 2

\* ------------------------------------------------------------- input sets
Nil == "nil"
Signals == {"interrupt", "terminated", "quit"}
\* <<host, base>> of the replies the server may give
Replies == {<<"db1", 1>>, <<"db2", 2>>}
Envs == {"prod"}
Clusters == {"", "shardA"}
Users == {"", "admin"}

\* ---------------------------------------------------------- data model
\* type Connections / Mem / RWT / GlobalLock / Opcounters / ExtraInfo
Connections(c, a, t) == [Current |-> c, Available |-> a, TotalCreated |-> t]
Mem(r, v, m, j) == [Resident |-> r, Virtual |-> v, Mapped |-> m, MappedWithJournal |-> j]
RWT(r, w, t) == [Readers |-> r, Writers |-> w, Total |-> t]
GlobalLock(tt, lt, cq, ac) ==
    [TotalTime |-> tt, LockTime |-> lt, CurrentQueue |-> cq, ActiveClients |-> ac]
Opcounters(i, q, u, d, g, c) ==
    [Insert |-> i, Query |-> q, Update |-> u, Delete |-> d, GetMore |-> g, Command |-> c]
ExtraInfo(p, h) == [PageFaults |-> p, HeapUsageInBytes |-> h]

\* type ServerStatus (the fields the program reads, plus opcountersRepl)
ServerStatus(host, conn, extra, mem, glob, ops, opsRepl) ==
    [Host |-> host, Connections |-> conn, ExtraInfo |-> extra, Mem |-> mem,
     GlobalLocks |-> glob, Opcounters |-> ops, OpcountersReplicaSet |-> opsRepl]

\* `var s ServerStatus`: the Go zero value
ZeroStatus ==
    ServerStatus("", Connections(0, 0, 0), ExtraInfo(0, 0), Mem(0, 0, 0, 0),
                 GlobalLock(0, 0, RWT(0, 0, 0), RWT(0, 0, 0)),
                 Opcounters(0, 0, 0, 0, 0, 0), Opcounters(0, 0, 0, 0, 0, 0))

\* A decoded reply of the server: every field carries a different number, so
\* that a gauge reading the wrong field is visible.  Connections.available
\* is negative for base 1.
DecodedStatus(h, b) ==
    LET n(i) == b * 100 + i IN
    ServerStatus(h,
        Connections(n(1), IF b = 1 THEN 0 - n(2) ELSE n(2), n(3)),
        ExtraInfo(n(4), n(5)),
        Mem(n(6), n(7), n(8), n(9)),
        GlobalLock(n(10), n(11), RWT(n(12), n(13), n(14)), RWT(n(15), n(16), n(17))),
        Opcounters(n(18), n(19), n(20), n(21), n(22), n(23)),
        Opcounters(n(24), n(25), n(26), n(27), n(28), n(29)))

Snapshots == {DecodedStatus(r[1], r[2]) : r \in Replies}

\* <<user, cluster>> of the configurations: one without credentials and
\* cluster name, one with both.
Deployments == {d \in Users \X Clusters : (d[1] = "") <=> (d[2] = "")}

\* Config values LoadConfig may hand to main.
Configs ==
    {[Mongo |-> [Addresses |-> <<"mongo1:27017">>, User |-> d[1], Pass |-> "secret"],
      Statsd |-> [Host |-> "statsd1", Port |-> "8125", Env |-> e, Cluster |-> d[2]]]
        : d \in Deployments, e \in Envs}

\* No previous cycle published in full.
NoCycle == [status |-> ZeroStatus, prefix |-> Nil, writes |-> <<>>]

\* ------------------------------------------------------------------ state
VARIABLES
    config,       \* config := LoadConfig()
    procState,    \* "running" | "exited" (main returned) | "crashed" (panic)
    panicValue,   \* the value given to panic, Nil if none
    tickerArmed,  \* the ticker has not been stopped
    tickPending,  \* ticker.C (capacity 1) holds a tick
    ticksFired,   \* number of times the ticker fired
    quitClosed,   \* close(quit) has happened
    registered,   \* signal.Notify(ch, ...) has happened
    signalsSent,  \* number of signals the OS delivered after registration
    sig,          \* sig := <-ch
    cycleAtSignal, \* the cycle executing when main received the signal, 0 if none
    pcMain,       \* position of the main goroutine
    pcLoop,       \* position of the ticking goroutine
    cyclesStarted, \* number of loop iterations begun (ticks received)
    sessions,     \* number of open mgo sessions
    sessionOps,   \* the mgo calls serverStatus made in this cycle, with their outcome
    status,       \* var s ServerStatus / the status argument of pushStats
    sinks,        \* number of open statsd clients
    sinkPrefix,   \* prefix the current client was created with
    calls,        \* the Gauge calls made on the client in this cycle
    err,          \* err of pushStats / of the loop body
    stdout,       \* lines written by fmt.Println
    lastPublished \* snapshot, prefix and gauge writes of the previous cycle if it
                  \* published in full, NoCycle otherwise

vars == <<config, procState, panicValue, tickerArmed, tickPending, ticksFired,
          quitClosed, registered, signalsSent, sig, cycleAtSignal, pcMain, pcLoop,
          cyclesStarted, sessions, sessionOps, status, sinks, sinkPrefix, calls, err,
          stdout, lastPublished>>

mainVars == <<registered, signalsSent, sig, cycleAtSignal, pcMain, quitClosed>>
tickVars == <<tickerArmed, tickPending, ticksFired>>
cycleVars == <<cyclesStarted, sessions, sessionOps, status, sinks, sinkPrefix, calls,
               err, lastPublished>>

Init ==
    /\ config \in Configs
    /\ procState = "running"
    /\ panicValue = Nil
    /\ tickerArmed = TRUE
    /\ tickPending = FALSE
    /\ ticksFired = 0
    /\ quitClosed = FALSE
    /\ registered = FALSE
    /\ signalsSent = 0
    /\ sig = Nil
    /\ cycleAtSignal = 0
    /\ pcMain = "notify"
    /\ pcLoop = "select"
    /\ cyclesStarted = 0
    /\ sessions = 0
    /\ sessionOps = <<>>
    /\ status = ZeroStatus
    /\ sinks = 0
    /\ sinkPrefix = Nil
    /\ calls = <<>>
    /\ err = Nil
    /\ stdout = <<>>
    /\ lastPublished = NoCycle

\* The loop goroutine is inside the body of `case <-ticker.C`.
InCycle == pcLoop \notin {"select", "stop", "returned"}

\* ----------------------------------------------------------------- ticker
\* The runtime timer fires: a non-blocking send on ticker.C (capacity 1);
\* a tick that finds the buffer full is dropped.
Tick ==
    /\ procState = "running"
    /\ tickerArmed
    /\ ticksFired < MaxTicks
    /\ ticksFired' = ticksFired + 1
    /\ tickPending' = TRUE
    /\ UNCHANGED <<config, procState, panicValue, tickerArmed, stdout, pcLoop>>
    /\ UNCHANGED mainVars
    /\ UNCHANGED cycleVars

\* ------------------------------------------------------- main goroutine
\* ch := make(chan os.Signal); signal.Notify(ch, SIGINT, SIGTERM, SIGQUIT)
Notify ==
    /\ procState = "running"
    /\ pcMain = "notify"
    /\ registered' = TRUE
    /\ pcMain' = "receive"
    /\ UNCHANGED <<config, procState, panicValue, stdout, pcLoop, signalsSent, sig,
                   cycleAtSignal, quitClosed>>
    /\ UNCHANGED tickVars
    /\ UNCHANGED cycleVars

\* sig := <-ch is reached: main blocks in the receive on the unbuffered ch.
AwaitSignal ==
    /\ procState = "running"
    /\ pcMain = "receive"
    /\ pcMain' = "recv"
    /\ UNCHANGED <<config, procState, panicValue, stdout, pcLoop, registered,
                   signalsSent, sig, cycleAtSignal, quitClosed>>
    /\ UNCHANGED tickVars
    /\ UNCHANGED cycleVars

\* The OS delivers one of the registered signals.  os/signal hands it to ch
\* with a non-blocking send; ch is unbuffered, so the send succeeds only
\* while main is blocked in `sig := <-ch`, and the signal is dropped
\* otherwise.
Signal(s) ==
    /\ procState = "running"
    /\ registered
    /\ signalsSent < MaxSignals
    /\ signalsSent' = signalsSent + 1
    /\ IF pcMain = "recv"
         THEN /\ sig' = s
              /\ cycleAtSignal' = IF InCycle THEN cyclesStarted ELSE 0
              /\ pcMain' = "print"
         ELSE UNCHANGED <<sig, cycleAtSignal, pcMain>>
    /\ UNCHANGED <<config, procState, panicValue, stdout, pcLoop, registered,
                   quitClosed>>
    /\ UNCHANGED tickVars
    /\ UNCHANGED cycleVars

\* PrintSignal changed: only an interrupt is reported.
PrintSignal_onlyInterrupt ==
    /\ procState = "running"
    /\ pcMain = "print"
    /\ stdout' = IF sig = "interrupt" THEN Append(stdout, "Received " \o sig) ELSE stdout
    /\ pcMain' = "close"
    /\ UNCHANGED <<config, procState, panicValue, pcLoop, registered, signalsSent,
                   sig, cycleAtSignal, quitClosed>>
    /\ UNCHANGED tickVars
    /\ UNCHANGED cycleVars

\* fmt.Println("Received " + sig.String())
PrintSignal ==
    /\ procState = "running"
    /\ pcMain = "print"
    /\ stdout' = Append(stdout, "Received " \o sig)
    /\ pcMain' = "close"
    /\ UNCHANGED <<config, procState, panicValue, pcLoop, registered, signalsSent,
                   sig, cycleAtSignal, quitClosed>>
    /\ UNCHANGED tickVars
    /\ UNCHANGED cycleVars

\* close(quit)
CloseQuit ==
    /\ procState = "running"
    /\ pcMain = "close"
    /\ quitClosed' = TRUE
    /\ pcMain' = "return"
    /\ UNCHANGED <<config, procState, panicValue, stdout, pcLoop, registered,
                   signalsSent, sig, cycleAtSignal>>
    /\ UNCHANGED tickVars
    /\ UNCHANGED cycleVars

\* main returns: the process exits, whatever the other goroutine is doing.
MainReturn ==
    /\ procState = "running"
    /\ pcMain = "return"
    /\ procState' = "exited"
    /\ pcMain' = "done"
    /\ UNCHANGED <<config, panicValue, stdout, pcLoop, registered, signalsSent, sig,
                   cycleAtSignal, quitClosed>>
    /\ UNCHANGED tickVars
    /\ UNCHANGED cycleVars

\* ---------------------------------------------------- ticking goroutine
\* TickRecv changed: the tick is not taken out of ticker.C.
TickRecv_keepsTick ==
    /\ procState = "running"
    /\ pcLoop = "select"
    /\ tickPending
    /\ pcLoop' = "dial"
    /\ cyclesStarted' = cyclesStarted + 1
    /\ UNCHANGED <<config, procState, panicValue, stdout>>
    /\ UNCHANGED tickVars
    /\ UNCHANGED mainVars
    /\ UNCHANGED <<sessions, sessionOps, status, sinks, sinkPrefix, calls, err,
                   lastPublished>>

\* TickRecv changed: a tick starts an iteration although the previous one
\* has not finished (the body run as a goroutine of its own).
TickRecv_whileInCycle ==
    /\ procState = "running"
    /\ pcLoop \notin {"stop", "returned"}
    /\ tickPending
    /\ tickPending' = FALSE
    /\ pcLoop' = "dial"
    /\ cyclesStarted' = cyclesStarted + 1
    /\ UNCHANGED <<config, procState, panicValue, stdout, tickerArmed, ticksFired>>
    /\ UNCHANGED mainVars
    /\ UNCHANGED <<sessions, sessionOps, status, sinks, sinkPrefix, calls, err,
                   lastPublished>>

\* select: case <-ticker.C.  One iteration of the loop body starts.
TickRecv ==
    /\ procState = "running"
    /\ pcLoop = "select"
    /\ tickPending
    /\ tickPending' = FALSE
    /\ pcLoop' = "dial"
    /\ cyclesStarted' = cyclesStarted + 1
    /\ UNCHANGED <<config, procState, panicValue, stdout, tickerArmed, ticksFired>>
    /\ UNCHANGED mainVars
    /\ UNCHANGED <<sessions, sessionOps, status, sinks, sinkPrefix, calls, err,
                   lastPublished>>

\* select: case <-quit.  Go picks among the ready cases at random, so this
\* case and TickRecv are both possible when both channels are ready.
QuitRecv ==
    /\ procState = "running"
    /\ pcLoop = "select"
    /\ quitClosed
    /\ pcLoop' = "stop"
    /\ UNCHANGED <<config, procState, panicValue, stdout>>
    /\ UNCHANGED tickVars
    /\ UNCHANGED mainVars
    /\ UNCHANGED cycleVars

\* ticker.Stop(); return.  Stop does not drain ticker.C.
TickerStop ==
    /\ procState = "running"
    /\ pcLoop = "stop"
    /\ tickerArmed' = FALSE
    /\ pcLoop' = "returned"
    /\ UNCHANGED <<config, procState, panicValue, stdout, tickPending, ticksFired>>
    /\ UNCHANGED mainVars
    /\ UNCHANGED cycleVars

\* What the Go runtime writes to standard error for a panic that nothing
\* recovers: the panic line, an empty line and the goroutine's stack.
panicOutput(v) ==
    IF v = Nil THEN <<>>
    ELSE <<"panic: " \o v, "", "goroutine [running]:", "main.serverStatus(...)">>

\* ---------------------------------------------------------- serverStatus
\* Dial changed: the login follows also when no user is configured.
Dial_alwaysLogin ==
    /\ procState = "running"
    /\ pcLoop = "dial"
    /\ \E ok \in BOOLEAN :
         /\ sessionOps' = Append(sessionOps, [op |-> "DialWithInfo", ok |-> ok])
         /\ IF ok
              THEN /\ sessions' = sessions + 1
                   /\ pcLoop' = "login"
                   /\ UNCHANGED <<procState, panicValue>>
              ELSE /\ procState' = "crashed"
                   /\ panicValue' = "ErrDial"
                   /\ UNCHANGED <<sessions, pcLoop>>
    /\ UNCHANGED <<config, cyclesStarted, lastPublished, stdout, status, sinks,
                   sinkPrefix, calls, err>>
    /\ UNCHANGED tickVars
    /\ UNCHANGED mainVars

\* session, err := mgo.DialWithInfo(&info); panic(err) on failure;
\* defer session.Close()
Dial ==
    /\ procState = "running"
    /\ pcLoop = "dial"
    /\ \E ok \in BOOLEAN :
         /\ sessionOps' = Append(sessionOps, [op |-> "DialWithInfo", ok |-> ok])
         /\ IF ok
              THEN /\ sessions' = sessions + 1
                   /\ pcLoop' = IF Len(config.Mongo.User) > 0 THEN "login" ELSE "run"
                   /\ UNCHANGED <<procState, panicValue>>
              ELSE /\ procState' = "crashed"
                   /\ panicValue' = "ErrDial"
                   /\ UNCHANGED <<sessions, pcLoop>>
    /\ UNCHANGED <<config, cyclesStarted, lastPublished, stdout, status, sinks,
                   sinkPrefix, calls, err>>
    /\ UNCHANGED tickVars
    /\ UNCHANGED mainVars

\* Login changed: the session is not closed when the login fails (the
\* Close deferred only after the login).
Login_leaksOnPanic ==
    /\ procState = "running"
    /\ pcLoop = "login"
    /\ \E ok \in BOOLEAN :
         /\ sessionOps' = Append(sessionOps, [op |-> "Login", ok |-> ok])
         /\ IF ok
              THEN /\ pcLoop' = "run"
                   /\ UNCHANGED <<procState, panicValue>>
              ELSE /\ procState' = "crashed"
                   /\ panicValue' = "ErrLogin"
                   /\ UNCHANGED pcLoop
    /\ UNCHANGED <<config, cyclesStarted, lastPublished, stdout, sessions, status,
                   sinks, sinkPrefix, calls, err>>
    /\ UNCHANGED tickVars
    /\ UNCHANGED mainVars

\* err = session.Login(&cred); panic(err) on failure.  The deferred
\* session.Close() runs while the panic unwinds.
Login ==
    /\ procState = "running"
    /\ pcLoop = "login"
    /\ \E ok \in BOOLEAN :
         IF ok
           THEN /\ sessionOps' = Append(sessionOps, [op |-> "Login", ok |-> TRUE])
                /\ pcLoop' = "run"
                /\ UNCHANGED <<procState, panicValue, sessions>>
           ELSE /\ sessionOps' = sessionOps \o <<[op |-> "Login", ok |-> FALSE],
                                                 [op |-> "Close", ok |-> TRUE]>>
                /\ sessions' = sessions - 1
                /\ procState' = "crashed"
                /\ panicValue' = "ErrLogin"
                /\ UNCHANGED pcLoop
    /\ UNCHANGED <<config, cyclesStarted, lastPublished, stdout, status, sinks,
                   sinkPrefix, calls, err>>
    /\ UNCHANGED tickVars
    /\ UNCHANGED mainVars

\* Run changed: a failed query is ignored and the zero-valued s returned.
Run_returnsOnError ==
    /\ procState = "running"
    /\ pcLoop = "run"
    /\ \/ /\ status' \in Snapshots
          /\ sessionOps' = sessionOps \o <<[op |-> "SetMode", ok |-> TRUE],
                                           [op |-> "Run", ok |-> TRUE]>>
       \/ /\ status' = status
          /\ sessionOps' = sessionOps \o <<[op |-> "SetMode", ok |-> TRUE],
                                           [op |-> "Run", ok |-> FALSE]>>
    /\ pcLoop' = "return_s"
    /\ UNCHANGED <<procState, panicValue, sessions>>
    /\ UNCHANGED <<config, cyclesStarted, lastPublished, stdout, sinks, sinkPrefix,
                   calls, err>>
    /\ UNCHANGED tickVars
    /\ UNCHANGED mainVars

\* session.SetMode(mgo.Monotonic, true); var s ServerStatus;
\* session.Run("serverStatus", &s); panic(err) on failure.
Run ==
    /\ procState = "running"
    /\ pcLoop = "run"
    /\ \/ /\ status' \in Snapshots
          /\ sessionOps' = sessionOps \o <<[op |-> "SetMode", ok |-> TRUE],
                                           [op |-> "Run", ok |-> TRUE]>>
          /\ pcLoop' = "return_s"
          /\ UNCHANGED <<procState, panicValue, sessions>>
       \/ /\ sessionOps' = sessionOps \o <<[op |-> "SetMode", ok |-> TRUE],
                                           [op |-> "Run", ok |-> FALSE],
                                           [op |-> "Close", ok |-> TRUE]>>
          /\ sessions' = sessions - 1
          /\ procState' = "crashed"
          /\ panicValue' = "ErrRun"
          /\ UNCHANGED <<pcLoop, status>>
    /\ UNCHANGED <<config, cyclesStarted, lastPublished, stdout, sinks, sinkPrefix,
                   calls, err>>
    /\ UNCHANGED tickVars
    /\ UNCHANGED mainVars

\* return s, with the deferred session.Close()
ServerStatusReturn ==
    /\ procState = "running"
    /\ pcLoop = "return_s"
    /\ sessionOps' = Append(sessionOps, [op |-> "Close", ok |-> TRUE])
    /\ sessions' = sessions - 1
    /\ pcLoop' = "newclient"
    /\ UNCHANGED <<config, cyclesStarted, lastPublished, procState, panicValue, stdout,
                   status, sinks, sinkPrefix, calls, err>>
    /\ UNCHANGED tickVars
    /\ UNCHANGED mainVars

\* ------------------------------------------------------------- publishing
\* fmt.Sprintf("%s.%s", a, b)
Sprintf(a, b) == a \o "." \o b

\* pushStatsPrefix changed: the cluster segment is added also when empty.
pushStatsPrefix_alwaysCluster(statsd_config, st) ==
    Sprintf(Sprintf(statsd_config.Env, statsd_config.Cluster), st.Host)

\* The prefix pushStats gives to statsd.NewClient.
pushStatsPrefix(statsd_config, st) ==
    LET prefix0 == statsd_config.Env
        prefix1 == IF Len(statsd_config.Cluster) > 0
                     THEN Sprintf(prefix0, statsd_config.Cluster)
                     ELSE prefix0
    IN  Sprintf(prefix1, st.Host)

\* The Gauge calls of each push function, in the order it makes them:
\* <<metric name, value>>.
\* pushConnections changed: a negative available is clamped to zero.
pushConnections_clamped(connections) ==
    << <<"connections.current", connections.Current>>,
       <<"connections.available",
         IF connections.Available < 0 THEN 0 ELSE connections.Available>>,
       <<"connections.created", connections.TotalCreated>> >>

pushConnections(connections) ==
    << <<"connections.current", connections.Current>>,
       <<"connections.available", connections.Available>>,
       <<"connections.created", connections.TotalCreated>> >>

pushOpcounters(opscounters) ==
    << <<"ops.inserts", opscounters.Insert>>,
       <<"ops.queries", opscounters.Query>>,
       <<"ops.updates", opscounters.Update>>,
       <<"ops.deletes", opscounters.Delete>>,
       <<"ops.getmores", opscounters.GetMore>>,
       <<"ops.commands", opscounters.Command>> >>

pushMem(mem) ==
    << <<"mem.resident", mem.Resident>>,
       <<"mem.virtual", mem.Virtual>>,
       <<"mem.mapped", mem.Mapped>>,
       <<"mem.mapped_with_journal", mem.MappedWithJournal>> >>

\* pushGlobalLocks changed: the queued gauges are sent before the active ones.
pushGlobalLocks_queuedFirst(glob) ==
    << <<"global_lock.total_time", glob.TotalTime>>,
       <<"global_lock.lock_time", glob.LockTime>>,
       <<"global_lock.queued_readers", glob.CurrentQueue.Readers>>,
       <<"global_lock.queued_writers", glob.CurrentQueue.Writers>>,
       <<"global_lock.queued_total", glob.CurrentQueue.Total>>,
       <<"global_lock.active_readers", glob.ActiveClients.Readers>>,
       <<"global_lock.active_writers", glob.ActiveClients.Writers>>,
       <<"global_lock.active_total", glob.ActiveClients.Total>> >>

pushGlobalLocks(glob) ==
    << <<"global_lock.total_time", glob.TotalTime>>,
       <<"global_lock.lock_time", glob.LockTime>>,
       <<"global_lock.active_readers", glob.ActiveClients.Readers>>,
       <<"global_lock.active_writers", glob.ActiveClients.Writers>>,
       <<"global_lock.active_total", glob.ActiveClients.Total>>,
       <<"global_lock.queued_readers", glob.CurrentQueue.Readers>>,
       <<"global_lock.queued_writers", glob.CurrentQueue.Writers>>,
       <<"global_lock.queued_total", glob.CurrentQueue.Total>> >>

pushExtraInfo(info) ==
    << <<"extra.page_faults", info.PageFaults>>,
       <<"extra.heap_usage", info.HeapUsageInBytes>> >>

\* The Gauge calls pushStats makes when none fails, in order.
pushStatsGauges(st) ==
    pushConnections(st.Connections) \o pushOpcounters(st.Opcounters)
        \o pushMem(st.Mem) \o pushGlobalLocks(st.GlobalLocks)
        \o pushExtraInfo(st.ExtraInfo)

\* client, err := statsd.NewClient(host_port, prefix); return err on
\* failure; defer client.Close()
NewClient ==
    /\ procState = "running"
    /\ pcLoop = "newclient"
    /\ \E ok \in BOOLEAN :
         IF ok
           THEN /\ sinks' = sinks + 1
                /\ sinkPrefix' = pushStatsPrefix(config.Statsd, status)
                /\ pcLoop' = "gauge"
                /\ UNCHANGED err
           ELSE /\ err' = "ErrNewClient"
                /\ pcLoop' = "check"
                /\ UNCHANGED <<sinks, sinkPrefix>>
    /\ UNCHANGED <<config, cyclesStarted, lastPublished, procState, panicValue, stdout,
                   sessions, sessionOps, status, calls>>
    /\ UNCHANGED tickVars
    /\ UNCHANGED mainVars

\* Gauge changed: the value sent is added to the one the previous cycle
\* sent for the same gauge.
Gauge_accumulates ==
    /\ procState = "running"
    /\ pcLoop = "gauge"
    /\ LET gauges == pushStatsGauges(status)
           k == Len(calls) + 1
           before == IF k \in DOMAIN lastPublished.writes
                       THEN lastPublished.writes[k][2] ELSE 0
       IN  \E ok \in BOOLEAN :
             /\ calls' = Append(calls, [name |-> gauges[k][1],
                                        value |-> gauges[k][2] + before, ok |-> ok])
             /\ IF ~ok
                  THEN /\ err' = "ErrGauge"
                       /\ pcLoop' = "close"
                  ELSE IF k = Len(gauges)
                         THEN /\ err' = Nil
                              /\ pcLoop' = "close"
                         ELSE UNCHANGED <<err, pcLoop>>
    /\ UNCHANGED <<config, cyclesStarted, lastPublished, procState, panicValue, stdout,
                   sessions, sessionOps, status, sinks, sinkPrefix>>
    /\ UNCHANGED tickVars
    /\ UNCHANGED mainVars

\* Gauge changed: the error of a failed call is kept but the remaining
\* gauges are still sent.
Gauge_ignoresError ==
    /\ procState = "running"
    /\ pcLoop = "gauge"
    /\ LET gauges == pushStatsGauges(status)
           k == Len(calls) + 1
       IN  \E ok \in BOOLEAN :
             /\ calls' = Append(calls, [name |-> gauges[k][1],
                                        value |-> gauges[k][2], ok |-> ok])
             /\ err' = IF ok THEN err ELSE "ErrGauge"
             /\ pcLoop' = IF k = Len(gauges) THEN "close" ELSE pcLoop
    /\ UNCHANGED <<config, cyclesStarted, lastPublished, procState, panicValue, stdout,
                   sessions, sessionOps, status, sinks, sinkPrefix>>
    /\ UNCHANGED tickVars
    /\ UNCHANGED mainVars

\* The next client.Gauge(name, value, 1.0) of pushConnections ..
\* pushExtraInfo; `if err != nil { return err }` after it, in the push
\* function and in pushStats; `return nil` after the last one.
Gauge ==
    /\ procState = "running"
    /\ pcLoop = "gauge"
    /\ LET gauges == pushStatsGauges(status)
           k == Len(calls) + 1
       IN  \E ok \in BOOLEAN :
             /\ calls' = Append(calls, [name |-> gauges[k][1],
                                        value |-> gauges[k][2], ok |-> ok])
             /\ IF ~ok
                  THEN /\ err' = "ErrGauge"
                       /\ pcLoop' = "close"
                  ELSE IF k = Len(gauges)
                         THEN /\ err' = Nil
                              /\ pcLoop' = "close"
                         ELSE UNCHANGED <<err, pcLoop>>
    /\ UNCHANGED <<config, cyclesStarted, lastPublished, procState, panicValue, stdout,
                   sessions, sessionOps, status, sinks, sinkPrefix>>
    /\ UNCHANGED tickVars
    /\ UNCHANGED mainVars

\* ClientClose changed: pushStats returns without closing its client.
ClientClose_leavesOpen ==
    /\ procState = "running"
    /\ pcLoop = "close"
    /\ pcLoop' = "check"
    /\ UNCHANGED <<config, cyclesStarted, lastPublished, procState, panicValue, stdout,
                   sessions, sessionOps, status, sinks, sinkPrefix, calls, err>>
    /\ UNCHANGED tickVars
    /\ UNCHANGED mainVars

\* The deferred client.Close() as pushStats returns.
ClientClose ==
    /\ procState = "running"
    /\ pcLoop = "close"
    /\ sinks' = sinks - 1
    /\ pcLoop' = "check"
    /\ UNCHANGED <<config, cyclesStarted, lastPublished, procState, panicValue, stdout,
                   sessions, sessionOps, status, sinkPrefix, calls, err>>
    /\ UNCHANGED tickVars
    /\ UNCHANGED mainVars

\* What the cycle that ends has published, if it published in full.
CyclePublished ==
    IF err = Nil
      THEN [status |-> status, prefix |-> sinkPrefix,
            writes |-> [i \in DOMAIN calls |-> <<calls[i].name, calls[i].value>>]]
      ELSE NoCycle

\* HandleErr changed: an error of pushStats ends the loop (ticker stopped,
\* goroutine returns) instead of waiting for the next tick.
HandleErr_returnsOnError ==
    /\ procState = "running"
    /\ pcLoop = "check"
    /\ stdout' = IF err # Nil THEN Append(stdout, err) ELSE stdout
    /\ pcLoop' = IF err # Nil THEN "returned" ELSE "select"
    /\ tickerArmed' = (err = Nil)
    /\ status' = ZeroStatus
    /\ sinkPrefix' = Nil
    /\ calls' = <<>>
    /\ err' = Nil
    /\ sessionOps' = <<>>
    /\ lastPublished' = CyclePublished
    /\ UNCHANGED <<config, cyclesStarted, procState, panicValue, sessions, sinks>>
    /\ UNCHANGED <<tickPending, ticksFired>>
    /\ UNCHANGED mainVars

\* if err != nil { fmt.Println(err) }; the loop body ends and its locals
\* (the snapshot, the client, err) go out of scope.
HandleErr ==
    /\ procState = "running"
    /\ pcLoop = "check"
    /\ stdout' = IF err # Nil THEN Append(stdout, err) ELSE stdout
    /\ pcLoop' = "select"
    /\ status' = ZeroStatus
    /\ sinkPrefix' = Nil
    /\ calls' = <<>>
    /\ err' = Nil
    /\ sessionOps' = <<>>
    /\ lastPublished' = CyclePublished
    /\ UNCHANGED <<config, cyclesStarted, procState, panicValue, sessions, sinks>>
    /\ UNCHANGED tickVars
    /\ UNCHANGED mainVars

Next ==
    \/ Tick
    \/ Notify
    \/ AwaitSignal
    \/ \E s \in Signals : Signal(s)
    \/ PrintSignal
    \/ CloseQuit
    \/ MainReturn
    \/ TickRecv
    \/ QuitRecv
    \/ TickerStop
    \/ Dial
    \/ Login
    \/ Run
    \/ ServerStatusReturn
    \/ NewClient
    \/ Gauge
    \/ ClientClose
    \/ HandleErr

Spec == Init /\ [][Next]_vars

\* ------------------------------------------------------------------ claims
\* C1: a failed status retrieval (connect, authenticate or status query)
\* in a cycle does not terminate the process; only a shutdown signal does.
C1_RetrievalFailureKeepsProcess ==
    [][procState = "running" /\ procState' # "running"
          => pcMain = "return" /\ sig \in Signals /\ procState' = "exited"]_vars

\* C2: a cycle that is executing when the termination signal arrives runs
\* to completion before the process exits: the process never exits with
\* the loop inside a cycle.
C2_InFlightCycleCompletes ==
    (procState = "exited" /\ cycleAtSignal # 0 /\ cyclesStarted = cycleAtSignal)
        => ~InCycle

\* C3: once quit has been closed the loop never begins another status
\* fetch, also when a tick is pending at that moment.
C3_NoCycleAfterQuit ==
    [][quitClosed => ~(pcLoop = "select" /\ pcLoop' = "dial")]_vars

\* The mapping table: metric name and snapshot field, in table order.
MetricTable(st) ==
    << <<"connections.current", st.Connections.Current>>,
       <<"connections.available", st.Connections.Available>>,
       <<"connections.created", st.Connections.TotalCreated>>,
       <<"ops.inserts", st.Opcounters.Insert>>,
       <<"ops.queries", st.Opcounters.Query>>,
       <<"ops.updates", st.Opcounters.Update>>,
       <<"ops.deletes", st.Opcounters.Delete>>,
       <<"ops.getmores", st.Opcounters.GetMore>>,
       <<"ops.commands", st.Opcounters.Command>>,
       <<"mem.resident", st.Mem.Resident>>,
       <<"mem.virtual", st.Mem.Virtual>>,
       <<"mem.mapped", st.Mem.Mapped>>,
       <<"mem.mapped_with_journal", st.Mem.MappedWithJournal>>,
       <<"global_lock.total_time", st.GlobalLocks.TotalTime>>,
       <<"global_lock.lock_time", st.GlobalLocks.LockTime>>,
       <<"global_lock.active_readers", st.GlobalLocks.ActiveClients.Readers>>,
       <<"global_lock.active_writers", st.GlobalLocks.ActiveClients.Writers>>,
       <<"global_lock.active_total", st.GlobalLocks.ActiveClients.Total>>,
       <<"global_lock.queued_readers", st.GlobalLocks.CurrentQueue.Readers>>,
       <<"global_lock.queued_writers", st.GlobalLocks.CurrentQueue.Writers>>,
       <<"global_lock.queued_total", st.GlobalLocks.CurrentQueue.Total>>,
       <<"extra.page_faults", st.ExtraInfo.PageFaults>>,
       <<"extra.heap_usage", st.ExtraInfo.HeapUsageInBytes>> >>

\* The metric names in the order of the table: 3 + 6 + 4 + 8 + 2 = 23.
MetricOrder == [i \in DOMAIN MetricTable(ZeroStatus) |-> MetricTable(ZeroStatus)[i][1]]

\* pushStats has returned to the loop after creating its client.
PushStatsReturned == pcLoop = "check" /\ sinkPrefix # Nil

\* C4: when no gauge call fails, a publish cycle issues exactly the gauges
\* of the mapping table, each once, each with the value of its snapshot
\* field unmodified, and nothing else (no replica-set opcounter).
C4_ExactlyTheTableGauges ==
    (PushStatsReturned /\ \A i \in DOMAIN calls : calls[i].ok)
        => /\ Len(calls) = Len(MetricTable(status))
           /\ \A i \in DOMAIN calls :
                /\ calls[i].name = MetricTable(status)[i][1]
                /\ calls[i].value = MetricTable(status)[i][2]
           /\ \A i, j \in DOMAIN calls : calls[i].name = calls[j].name => i = j
           /\ \A i \in DOMAIN calls :
                \A f \in DOMAIN status.OpcountersReplicaSet :
                    calls[i].value # status.OpcountersReplicaSet[f]

\* C4 as stated: a publish cycle without failure issues exactly 20 gauge
\* calls.
C4_ExactlyTwentyGauges ==
    (PushStatsReturned /\ \A i \in DOMAIN calls : calls[i].ok) => Len(calls) = 20

\* A cycle has published its gauges with a negative Connections.available.
C4_Witness ==
    /\ PushStatsReturned
    /\ err = Nil
    /\ Len(calls) = Len(MetricOrder)
    /\ status.Connections.Available < 0
    /\ calls[2].value = status.Connections.Available

\* C5: if the k-th gauge call fails, exactly the first k gauges have been
\* attempted and none after it, what was sent stays sent, pushStats returns
\* the error, and the loop prints it and goes back to its select with the
\* process still running.
C5_ShortCircuitOnFailure ==
    /\ [](\A i \in DOMAIN calls :
            /\ calls[i].name = MetricOrder[i]
            /\ ~calls[i].ok => /\ i = Len(calls)
                               /\ pcLoop \in {"close", "check"}
                               /\ err = "ErrGauge")
    /\ [][(calls # <<>> /\ ~calls[Len(calls)].ok)
            => \/ calls' = calls
               \/ /\ pcLoop = "check"
                  /\ pcLoop' = "select"
                  /\ stdout' = Append(stdout, "ErrGauge")
                  /\ procState' = "running"]_vars

\* The third gauge failed and pushStats returned the error after three
\* calls.
C5_Witness ==
    /\ PushStatsReturned
    /\ err = "ErrGauge"
    /\ Len(calls) = 3
    /\ calls[1].ok /\ calls[2].ok /\ ~calls[3].ok
    /\ sinks = 0

\* C6: no partial snapshot is published: a cycle whose status retrieval
\* fails creates no sink and issues no gauge; a sink or a gauge call of a
\* cycle implies a complete snapshot fetched in that cycle.
C6_NoPartialSnapshot ==
    /\ panicValue # Nil => calls = <<>> /\ sinks = 0 /\ sinkPrefix = Nil
    /\ (calls # <<>> \/ sinks > 0 \/ sinkPrefix # Nil)
          => /\ status \in Snapshots
             /\ pcLoop \in {"gauge", "close", "check"}
             /\ panicValue = Nil

\* The status query of a second cycle failed after a first cycle that
\* published.
C6_Witness ==
    /\ panicValue = "ErrRun"
    /\ cyclesStarted = 2
    /\ calls = <<>>

\* C7: at most one cycle is active: never more than one open session or
\* sink at a time, and a new iteration starts only from the select.
C7_NoOverlap ==
    /\ sessions + sinks <= 1
    /\ (sessions + sinks = 1 => InCycle)

\* A tick fired while a cycle was publishing and waits in ticker.C.
C7_Witness ==
    /\ tickPending
    /\ cyclesStarted = 1
    /\ ticksFired = 2
    /\ sinks = 1
    /\ calls # <<>>

\* C8: after pushStats returns an error the loop goes back to its select
\* with the ticker armed and the process running, nothing of the failed
\* cycle is kept, and a pending tick starts a full new cycle.
C8_FailureKeepsLoopRunning ==
    /\ [][(pcLoop = "check" /\ err # Nil /\ pcLoop' # pcLoop)
            => /\ pcLoop' = "select"
               /\ procState' = "running"
               /\ tickerArmed'
               /\ stdout' = Append(stdout, err)]_vars
    /\ []((pcLoop \in {"select", "dial"})
            => /\ status = ZeroStatus /\ calls = <<>> /\ err = Nil
               /\ sinks = 0 /\ sessions = 0 /\ sinkPrefix = Nil)
    /\ []((pcLoop = "select" /\ procState = "running" /\ tickPending)
            => ENABLED TickRecv)

\* C8 as stated: the full cycle that follows a failed transmission
\* attempts 20 gauges.
C8_NextCycleTwentyGauges ==
    (PushStatsReturned /\ err = Nil /\ \E i \in DOMAIN stdout : stdout[i] = "ErrGauge")
        => Len(calls) = 20

\* A cycle sent all its gauges after an earlier cycle had failed in
\* transmission.
C8_Witness ==
    /\ \E i \in DOMAIN stdout : stdout[i] = "ErrGauge"
    /\ PushStatsReturned
    /\ err = Nil
    /\ Len(calls) = Len(MetricOrder)

\* C9: the names emitted in a cycle are always a prefix of the fixed
\* sequence connections, ops, mem, global_lock, extra, each in table order.
C9_GaugeOrderIsPrefix ==
    /\ Len(calls) <= 23
    /\ [i \in DOMAIN calls |-> calls[i].name] = SubSeq(
         << "connections.current", "connections.available", "connections.created",
            "ops.inserts", "ops.queries", "ops.updates", "ops.deletes",
            "ops.getmores", "ops.commands",
            "mem.resident", "mem.virtual", "mem.mapped", "mem.mapped_with_journal",
            "global_lock.total_time", "global_lock.lock_time",
            "global_lock.active_readers", "global_lock.active_writers",
            "global_lock.active_total", "global_lock.queued_readers",
            "global_lock.queued_writers", "global_lock.queued_total",
            "extra.page_faults", "extra.heap_usage" >>, 1, Len(calls))

\* C9 as stated: the names emitted in a cycle are a prefix of a sequence
\* of 20 names in that order.
C9_PrefixOfTwentyNames ==
    /\ Len(calls) <= 20
    /\ \A i \in DOMAIN calls : calls[i].name = MetricOrder[i]

\* The cycle is past the global_lock group, about to send the extra group.
C9_Witness ==
    /\ pcLoop = "gauge"
    /\ Len(calls) = 21
    /\ calls[21].name = "global_lock.queued_total"

\* C10: the client's prefix is env.host when cluster is empty and
\* env.cluster.host otherwise, host being the host of the snapshot.
C10_NamespacePrefix ==
    sinkPrefix # Nil =>
        LET e == config.Statsd.Env
            c == config.Statsd.Cluster
            h == status.Host
        IN  /\ h \in {r[1] : r \in Replies}
            /\ \A a \in DOMAIN config.Mongo.Addresses : h # config.Mongo.Addresses[a]
            /\ sinkPrefix = IF c = "" THEN e \o "." \o h ELSE e \o "." \o c \o "." \o h
            /\ (e = "prod" /\ c = "" /\ h = "db1") => sinkPrefix = "prod.db1"
            /\ (e = "prod" /\ c = "shardA" /\ h = "db1") => sinkPrefix = "prod.shardA.db1"

\* A client was created for host db1 with no cluster configured.
C10_Witness ==
    /\ sinks = 1
    /\ config.Statsd.Cluster = ""
    /\ status.Host = "db1"
    /\ sinkPrefix = "prod.db1"

\* C11: a publish cycle creates at most one sink; a sink that was created
\* is closed before pushStats returns on every path, so none is open
\* between cycles; when the creation fails no gauge is attempted and the
\* error goes back to the loop.
C11_SinkLifecycle ==
    /\ [](/\ sinks <= 1
          /\ sinks = 1 => pcLoop \in {"gauge", "close"}
          /\ (pcLoop = "check" /\ sinkPrefix = Nil)
                => calls = <<>> /\ err = "ErrNewClient")
    /\ [][sinks' > sinks
            => pcLoop = "newclient" /\ sinks = 0 /\ calls = <<>> /\ sinkPrefix = Nil]_vars
    /\ [][(pcLoop = "check" /\ pcLoop' # pcLoop /\ sinkPrefix = Nil)
            => stdout' = Append(stdout, "ErrNewClient") /\ pcLoop' = "select"]_vars

\* pushStats returned after its last gauge failed, with the sink closed.
C11_Witness ==
    /\ PushStatsReturned
    /\ err = "ErrGauge"
    /\ Len(calls) = Len(MetricOrder)
    /\ ~calls[Len(calls)].ok
    /\ sinks = 0

\* The lines of stdout that report a received signal.
ReceivedLines == {i \in DOMAIN stdout : stdout[i] \in {"Received " \o s : s \in Signals}}

\* C12: the line naming the received signal is printed before quit is
\* closed, exactly one such line is printed, and the three signals take
\* the same path.
C12_SignalLineBeforeShutdown ==
    /\ Cardinality(ReceivedLines) <= 1
    /\ \A i \in ReceivedLines : stdout[i] = "Received " \o sig
    /\ (pcMain \in {"close", "return", "done"} \/ quitClosed)
          => /\ sig \in Signals
             /\ Cardinality(ReceivedLines) = 1
    /\ quitClosed => pcMain \in {"return", "done"}

\* quit was closed after SIGTERM, with its line printed.
C12_Witness ==
    /\ quitClosed
    /\ sig = "terminated"
    /\ \E i \in DOMAIN stdout : stdout[i] = "Received terminated"

\* C13: two successive cycles that publish the same snapshot under the same
\* configuration make identical sequences of gauge writes with the same
\* prefix, and a cycle starts with nothing left of the one before.
C13_SuccessiveCyclesIdentical ==
    /\ (PushStatsReturned /\ err = Nil /\ lastPublished.status = status)
          => /\ [i \in DOMAIN calls |-> <<calls[i].name, calls[i].value>>]
                    = lastPublished.writes
             /\ sinkPrefix = lastPublished.prefix
    /\ pcLoop = "dial"
          => /\ status = ZeroStatus /\ calls = <<>> /\ err = Nil
             /\ sinks = 0 /\ sinkPrefix = Nil /\ sessions = 0

\* A second cycle has published the snapshot the first one published.
C13_Witness ==
    /\ PushStatsReturned
    /\ err = Nil
    /\ cyclesStarted = 2
    /\ status \in Snapshots
    /\ lastPublished.status = status
    /\ Len(lastPublished.writes) = Len(MetricOrder)

\* C14: a cycle that succeeds prints nothing, a cycle whose transmission
\* fails prints one line, and a cycle whose status retrieval fails leaves
\* exactly one line as well.
C14_OneLinePerFailedCycle ==
    /\ [][(pcLoop = "check" /\ pcLoop' # pcLoop)
            => Len(stdout') = Len(stdout) + (IF err = Nil THEN 0 ELSE 1)]_vars
    /\ [](panicValue # Nil => Len(panicOutput(panicValue)) = 1)

\* C15: the process exits only after the loop has run ticker.Stop.
C15_TimerStoppedBeforeExit ==
    procState = "exited" => ~tickerArmed

\* The names of the mgo calls of this cycle's serverStatus, in order.
SessionOpNames == [i \in DOMAIN sessionOps |-> sessionOps[i].op]

\* C16: serverStatus opens at most one session and closes it before control
\* leaves it, by return or by panic; no session is open outside a cycle or
\* while the cycle publishes.
C16_SessionCycleScoped ==
    /\ sessions <= 1
    /\ Cardinality({i \in DOMAIN sessionOps : sessionOps[i].op = "DialWithInfo"}) <= 1
    /\ sessions = 1 => pcLoop \in {"login", "run", "return_s"}
    /\ ~InCycle => sessions = 0
    /\ panicValue # Nil => sessions = 0
    /\ (panicValue \in {"ErrLogin", "ErrRun"}
         \/ pcLoop \in {"newclient", "gauge", "close", "check"})
          => /\ sessions = 0
             /\ sessionOps[Len(sessionOps)].op = "Close"
             /\ Cardinality({i \in DOMAIN sessionOps : sessionOps[i].op = "Close"}) = 1

\* A login failed and the session was closed while the panic unwound.
C16_Witness ==
    /\ panicValue = "ErrLogin"
    /\ sessions = 0
    /\ SessionOpNames = <<"DialWithInfo", "Login", "Close">>

\* C17: a login is attempted exactly when a user is configured, after the
\* dial has succeeded and before the status query; the query is never
\* issued after a failed dial or a failed login.
C17_LoginProtocol ==
    /\ \A i \in DOMAIN sessionOps :
         /\ sessionOps[i].op = "Login"
              => /\ Len(config.Mongo.User) > 0
                 /\ i = 2
                 /\ sessionOps[1] = [op |-> "DialWithInfo", ok |-> TRUE]
         /\ sessionOps[i].op = "Run"
              => /\ \A j \in 1..(i - 1) : sessionOps[j].ok
                 /\ sessionOps[1].op = "DialWithInfo"
                 /\ (Len(config.Mongo.User) > 0) <=> (sessionOps[2].op = "Login")
         /\ (i > 1 /\ sessionOps[i].op # "Close") => sessionOps[i - 1].ok
    /\ (pcLoop = "run" /\ panicValue = Nil /\ config.Mongo.User = "")
          => SessionOpNames = <<"DialWithInfo">>
    /\ (pcLoop = "run" /\ panicValue = Nil /\ config.Mongo.User # "")
          => SessionOpNames = <<"DialWithInfo", "Login">>

\* With a user configured the query ran after a successful login.
C17_Witness ==
    /\ config.Mongo.User = "admin"
    /\ pcLoop = "return_s"
    /\ SessionOpNames = <<"DialWithInfo", "Login", "SetMode", "Run">>
    /\ \A i \in DOMAIN sessionOps : sessionOps[i].ok

C19_NoSignalLost ==
    signalsSent > 0 => sig \in Signals
====
